---- MODULE Spec2Model ----
(***************************************************************************)
(* A model of earth/generate_us_states_polygons.py (the location-table     *)
(* generator) and of the end-date conversion exercised by                  *)
(* earth/test_date_handling.py and earth/test_prepare_date_extraction.py.  *)
(*                                                                         *)
(* Encoding of the Python values:                                          *)
(*   - a str is a sequence of characters, a character a one-character      *)
(*     string, except the two code points written "U+0130" (capital I with *)
(*     dot above) and "U+0307" (combining dot above);                      *)
(*   - a list is a sequence, a coordinate pair [lon, lat] is <<lon, lat>>; *)
(*   - a value whose JSON shape depends on a tag is wrapped in a one-field *)
(*     record naming the shape: geometry.coordinates is [rings |-> ...]    *)
(*     for a Polygon, [polygons |-> ...] for a MultiPolygon and            *)
(*     [position |-> ...] for a Point;                                     *)
(*   - coordinates are integers: only their order matters to min and max.  *)
(*                                                                         *)
(* The documents have a 'features' list whose items have properties.name,  *)
(* geometry.type and geometry.coordinates; writing to the output file does *)
(* not fail.                                                               *)
(***************************************************************************)
EXTENDS Integers, Sequences, FiniteSets, TLC

VARIABLES
    data,          \* the document behind the URL: [features |-> <<feature, ...>>]
    max_vertices,  \* process_geojson's second argument (--max-vertices)
    pc,            \* position of process_geojson
    i,             \* index (from 1) of the feature the for loop is at; 0 outside the loop
    file,          \* the output file: [exists |-> BOOLEAN, lines |-> sequence of lines]
    ret,           \* the value process_geojson returned: 0, 1, or -1 for none yet
    err,           \* the exception that left process_geojson, "none" when none did
    loaded,        \* whether this run's json.load(response) succeeded
    prev,          \* the previous run of the script on the same URL and output path
    config_data,   \* the YAML configuration handed to extract_and_convert_date
    pads_year,     \* whether the platform's strftime zero-pads %Y to four digits
    date_pc,       \* position of extract_and_convert_date
    end_date,      \* the string extract_and_convert_date returned (<<>> before)
    raised         \* the message of the KeyError it raised, "none" when none

geoVars  == <<data, max_vertices, pc, i, file, ret, err, loaded, prev>>
dateVars == <<config_data, pads_year, date_pc, end_date, raised>>
vars     == <<data, max_vertices, pc, i, file, ret, err, loaded, prev,
              config_data, pads_year, date_pc, end_date, raised>>

(***************************************************************************)
(* Bounds of the model.                                                    *)
(***************************************************************************)
MaxRegions == 2
MaxRingLen == 3
MaxPolys == 3
MaxNameLen == 2

(***************************************************************************)
(* Sequences.                                                              *)
(***************************************************************************)
SeqsUpTo(S, n) == UNION {[1..k -> S] : k \in 0..n}

Range(s) == {s[k] : k \in 1..Len(s)}

RECURSIVE Flatten(_)
Flatten(ss) == IF ss = <<>> THEN <<>> ELSE Head(ss) \o Flatten(Tail(ss))

(***************************************************************************)
(* str.lower() and str.replace(old, new) for a one-character old.          *)
(***************************************************************************)
LowerChar(c) ==
    CASE c = "A" -> <<"a">>
      [] c = "U+0130" -> <<"i", "U+0307">>
      [] OTHER -> <<c>>

StrLower(s) == Flatten([k \in 1..Len(s) |-> LowerChar(s[k])])

StrReplace(s, old, new) == [k \in 1..Len(s) |-> IF s[k] = old THEN new ELSE s[k]]

\* location_id_from_name without the lower().
location_id_from_nameKeepCase(name) == StrReplace(name, " ", "-")

location_id_from_name(name) == StrReplace(StrLower(name), " ", "-")

(***************************************************************************)
(* min(), max() and max(key=) of a non-empty list. max returns the first   *)
(* of the items whose key is greatest.                                     *)
(***************************************************************************)
PyMin(s) == CHOOSE x \in Range(s) : \A y \in Range(s) : x <= y

PyMax(s) == CHOOSE x \in Range(s) : \A y \in Range(s) : y <= x

FirstMaxIndex(keys) ==
    CHOOSE k \in 1..Len(keys) :
        /\ \A j \in 1..Len(keys) : keys[j] <= keys[k]
        /\ \A j \in 1..(k - 1) : keys[j] < keys[k]

\* The last of the greatest, as max() would return were ties to go to the later item.
LastMaxIndex(keys) ==
    CHOOSE k \in 1..Len(keys) :
        /\ \A j \in 1..Len(keys) : keys[j] <= keys[k]
        /\ \A j \in (k + 1)..Len(keys) : keys[j] < keys[k]

(***************************************************************************)
(* One iteration of the for loop, lines 59-83.                             *)
(***************************************************************************)
\* The exception line 66-72 raise for the geometry, "none" when they do not:
\* [0] of an empty list is an IndexError, max() of an empty list a ValueError;
\* max() calls the key on every polygon, in order.
SelectRaises(geometry) ==
    CASE geometry.type = "Polygon" ->
            IF geometry.coordinates.rings = <<>> THEN "IndexError" ELSE "none"
      [] geometry.type = "MultiPolygon" ->
            IF geometry.coordinates.polygons = <<>> THEN "ValueError"
            ELSE IF \E p \in Range(geometry.coordinates.polygons) : p = <<>>
                 THEN "IndexError"
                 ELSE "none"
      [] OTHER -> "none"

\* Largest with ties going to the later polygon.
LargestLast(polygons) ==
    polygons[LastMaxIndex([k \in 1..Len(polygons) |-> Len(polygons[k][1])])]

\* max(geometry['coordinates'], key=lambda p: len(p[0]))
Largest(polygons) ==
    polygons[FirstMaxIndex([k \in 1..Len(polygons) |-> Len(polygons[k][1])])]

\* SelectCoordinates reading the last ring of the polygon instead of the first.
SelectCoordinatesLastRing(geometry) ==
    CASE geometry.type = "Polygon" ->
            geometry.coordinates.rings[Len(geometry.coordinates.rings)]
      [] geometry.type = "MultiPolygon" ->
            LET p == Largest(geometry.coordinates.polygons) IN p[Len(p)]
      [] OTHER -> <<>>

\* Lines 64-72: the list the bounding box is taken of.
SelectCoordinates(geometry) ==
    CASE geometry.type = "Polygon" -> geometry.coordinates.rings[1]
      [] geometry.type = "MultiPolygon" -> Largest(geometry.coordinates.polygons)[1]
      [] OTHER -> <<>>

\* Bounds looking at the first and the last point only.
BoundsFirstLast(coordinates) ==
    LET ends == <<coordinates[1], coordinates[Len(coordinates)]>>
        lons == [k \in 1..2 |-> ends[k][1]]
        lats == [k \in 1..2 |-> ends[k][2]]
    IN  [latmin |-> PyMin(lats), latmax |-> PyMax(lats),
         lonmin |-> PyMin(lons), lonmax |-> PyMax(lons)]

\* Lines 75-80, for a non-empty list.
Bounds(coordinates) ==
    LET lons == [k \in 1..Len(coordinates) |-> coordinates[k][1]]
        lats == [k \in 1..Len(coordinates) |-> coordinates[k][2]]
    IN  [latmin |-> PyMin(lats), latmax |-> PyMax(lats),
         lonmin |-> PyMin(lons), lonmax |-> PyMax(lons)]

\* The exception the iteration raises for the feature, "none" when it writes
\* the row: min() of an empty list is a ValueError (line 77).
Raises(feature) ==
    IF SelectRaises(feature.geometry) # "none" THEN SelectRaises(feature.geometry)
    ELSE IF SelectCoordinates(feature.geometry) = <<>> THEN "ValueError"
    ELSE "none"

\* Row with the ring cut to its first max_vertices points.
RowTruncated(feature) ==
    LET ring == SelectCoordinates(feature.geometry)
        n    == IF Len(ring) < max_vertices THEN Len(ring) ELSE max_vertices
        b    == Bounds(SubSeq(ring, 1, n))
    IN  [Name |-> location_id_from_name(feature.properties.name),
         Description |-> feature.properties.name,
         Latmin |-> b.latmin, Latmax |-> b.latmax,
         Lonmin |-> b.lonmin, Lonmax |-> b.lonmax]

\* Line 83: the row, by its columns. The numbers are written with repr, which
\* writes a different text for a different number.
Row(feature) ==
    LET b == Bounds(SelectCoordinates(feature.geometry))
    IN  [Name |-> location_id_from_name(feature.properties.name),
         Description |-> feature.properties.name,
         Latmin |-> b.latmin, Latmax |-> b.latmax,
         Lonmin |-> b.lonmin, Lonmax |-> b.lonmax]

\* Lines 51-55: the comment lines and the header.
HeaderLines ==
    << [text |-> "# US States Location Table"],
       [text |-> "# Format: Name,Description,Latmin,Latmax,Lonmin,Lonmax"],
       [text |-> "# Longitude: negative for West, positive for East"],
       [text |-> "# Latitude: negative for South, positive for North"],
       [text |-> "Name,Description,Latmin,Latmax,Lonmin,Lonmax"] >>

NoFile == [exists |-> FALSE, lines |-> <<>>]

NoRun == [ran |-> FALSE, max_vertices |-> 0, loaded |-> FALSE,
          file |-> NoFile, ret |-> -1, err |-> "none"]

\* The rows of the table in the file: the lines after the header.
Rows(f) == IF Len(f.lines) <= Len(HeaderLines) THEN <<>>
           ELSE SubSeq(f.lines, Len(HeaderLines) + 1, Len(f.lines))

(***************************************************************************)
(* process_geojson.                                                        *)
(***************************************************************************)
\* Lines 39-41: the document is retrieved and parsed.
DownloadOk ==
    /\ pc = "download"
    /\ loaded' = TRUE
    /\ pc' = "open"
    /\ UNCHANGED <<data, max_vertices, i, file, ret, err, prev>>
    /\ UNCHANGED dateVars

\* DownloadFails with the output file opened before the retrieval.
DownloadFailsAfterOpen ==
    /\ pc = "download"
    /\ file' = [exists |-> TRUE, lines |-> HeaderLines]
    /\ ret' = 1
    /\ pc' = "returned"
    /\ UNCHANGED <<data, max_vertices, i, err, loaded, prev>>
    /\ UNCHANGED dateVars

\* Lines 42-44: urlopen or json.load raised; return 1.
DownloadFails ==
    /\ pc = "download"
    /\ ret' = 1
    /\ pc' = "returned"
    /\ UNCHANGED <<data, max_vertices, i, file, err, loaded, prev>>
    /\ UNCHANGED dateVars

\* Lines 46-55: open(output_file, 'w') creates or truncates the file; the
\* comment lines and the header are written.
OpenOutput ==
    /\ pc = "open"
    /\ file' = [exists |-> TRUE, lines |-> HeaderLines]
    /\ i' = 1
    /\ pc' = "loop"
    /\ UNCHANGED <<data, max_vertices, ret, err, loaded, prev>>
    /\ UNCHANGED dateVars

\* WriteRow with the row written above the rows already there.
WriteRowFirst ==
    /\ pc = "loop"
    /\ i <= Len(data.features)
    /\ Raises(data.features[i]) = "none"
    /\ file' = [file EXCEPT !.lines =
                   HeaderLines \o <<Row(data.features[i])>> \o Rows(file)]
    /\ i' = i + 1
    /\ UNCHANGED <<data, max_vertices, pc, ret, err, loaded, prev>>
    /\ UNCHANGED dateVars

\* WriteRow with min() and max() given default=0, so that an empty list does
\* not raise.
WriteRowDefaultBounds ==
    /\ pc = "loop"
    /\ i <= Len(data.features)
    /\ SelectRaises(data.features[i].geometry) = "none"
    /\ LET feature == data.features[i]
           ring    == SelectCoordinates(feature.geometry)
           b       == IF ring = <<>>
                      THEN [latmin |-> 0, latmax |-> 0, lonmin |-> 0, lonmax |-> 0]
                      ELSE Bounds(ring)
       IN  file' = [file EXCEPT !.lines = Append(@,
                       [Name |-> location_id_from_name(feature.properties.name),
                        Description |-> feature.properties.name,
                        Latmin |-> b.latmin, Latmax |-> b.latmax,
                        Lonmin |-> b.lonmin, Lonmax |-> b.lonmax])]
    /\ i' = i + 1
    /\ UNCHANGED <<data, max_vertices, pc, ret, err, loaded, prev>>
    /\ UNCHANGED dateVars

\* Lines 58-85, an iteration that raises nothing: the row is appended.
WriteRow ==
    /\ pc = "loop"
    /\ i <= Len(data.features)
    /\ Raises(data.features[i]) = "none"
    /\ file' = [file EXCEPT !.lines = Append(@, Row(data.features[i]))]
    /\ i' = i + 1
    /\ UNCHANGED <<data, max_vertices, pc, ret, err, loaded, prev>>
    /\ UNCHANGED dateVars

\* Lines 58-80, an iteration that raises: nothing catches the exception, the
\* with statement closes the file and the exception leaves process_geojson.
IterationRaises ==
    /\ pc = "loop"
    /\ i <= Len(data.features)
    /\ Raises(data.features[i]) # "none"
    /\ err' = Raises(data.features[i])
    /\ pc' = "raised"
    /\ UNCHANGED <<data, max_vertices, i, file, ret, loaded, prev>>
    /\ UNCHANGED dateVars

\* Lines 87-88: the loop is over, the file is closed; return 0.
ReturnZero ==
    /\ pc = "loop"
    /\ i > Len(data.features)
    /\ ret' = 0
    /\ pc' = "returned"
    /\ UNCHANGED <<data, max_vertices, i, file, err, loaded, prev>>
    /\ UNCHANGED dateVars

MaxVerticesValues == {1, 50}

\* Lines 105-114: the script is run again, with any --max-vertices, on the same
\* URL and output path; the file is as the run before left it.
MainAgain ==
    /\ pc \in {"returned", "raised"}
    /\ prev' = [ran |-> TRUE, max_vertices |-> max_vertices, loaded |-> loaded,
                file |-> file, ret |-> ret, err |-> err]
    /\ \E n \in MaxVerticesValues : max_vertices' = n
    /\ pc' = "download"
    /\ i' = 0
    /\ ret' = -1
    /\ err' = "none"
    /\ loaded' = FALSE
    /\ UNCHANGED <<data, file>>
    /\ UNCHANGED dateVars

Next ==
    \/ DownloadOk
    \/ DownloadFails
    \/ OpenOutput
    \/ WriteRow
    \/ IterationRaises
    \/ ReturnZero
    \/ MainAgain

(***************************************************************************)
(* The end-date conversion: convert_date_value and                         *)
(* extract_and_convert_date.                                               *)
(***************************************************************************)
DigitChars == <<"0", "1", "2", "3", "4", "5", "6", "7", "8", "9">>

\* The decimal digits of a natural number.
RECURSIVE Digits(_)
Digits(n) == IF n < 10 THEN <<DigitChars[n + 1]>>
             ELSE Append(Digits(n \div 10), DigitChars[(n % 10) + 1])

RECURSIVE ZeroPad(_, _)
ZeroPad(s, width) == IF Len(s) >= width THEN s ELSE ZeroPad(<<"0">> \o s, width)

\* date.strftime('%Y%m%d'). %m and %d are two digits; %Y is the year as the
\* platform's C library writes it: four digits, or (glibc) the bare number.
Strftime(d) ==
    (IF pads_year THEN ZeroPad(Digits(d.year), 4) ELSE Digits(d.year))
        \o ZeroPad(Digits(d.month), 2) \o ZeroPad(Digits(d.day), 2)

\* str.replace(old, '') for a one-character old.
StrRemove(s, old) == SelectSeq(s, LAMBDA c : c # old)

\* A value has strftime when it is a date; str() of a str is the str.
convert_date_value(end_date_value) ==
    IF "date" \in DOMAIN end_date_value
    THEN Strftime(end_date_value.date)
    ELSE StrRemove(end_date_value.str, "-")

\* extract_and_convert_date, the first check failing.
RaiseMissingIntegration ==
    /\ date_pc = "call"
    /\ "integration" \notin DOMAIN config_data
    /\ raised' = "Missing 'integration' section in config file"
    /\ date_pc' = "raised"
    /\ UNCHANGED <<config_data, pads_year, end_date>>
    /\ UNCHANGED geoVars

\* extract_and_convert_date, the second check failing.
RaiseMissingEndDate ==
    /\ date_pc = "call"
    /\ "integration" \in DOMAIN config_data
    /\ "end-date" \notin DOMAIN config_data.integration
    /\ raised' = "Missing 'end-date' key in 'integration' section of config file"
    /\ date_pc' = "raised"
    /\ UNCHANGED <<config_data, pads_year, end_date>>
    /\ UNCHANGED geoVars

\* extract_and_convert_date, both keys present: the value is converted.
ReturnEndDate ==
    /\ date_pc = "call"
    /\ "integration" \in DOMAIN config_data
    /\ "end-date" \in DOMAIN config_data.integration
    /\ end_date' = convert_date_value(config_data.integration["end-date"])
    /\ date_pc' = "returned"
    /\ UNCHANGED <<config_data, pads_year, raised>>
    /\ UNCHANGED geoVars

DateNext ==
    \/ RaiseMissingIntegration
    \/ RaiseMissingEndDate
    \/ ReturnEndDate

\* The dates and the configurations the date specification draws from.
Years == {999, 1000, 2024}
Months == {1, 10, 12}
Days == {1, 2, 15}
Dates == [year : Years, month : Months, day : Days]

\* date.isoformat(), the 'YYYY-MM-DD' of a date.
IsoFormat(d) ==
    ZeroPad(Digits(d.year), 4) \o <<"-">> \o ZeroPad(Digits(d.month), 2)
        \o <<"-">> \o ZeroPad(Digits(d.day), 2)

Configs ==
    { [other |-> "data"], [integration |-> [other |-> "data"]] }
    \cup { [integration |-> ("end-date" :> [date |-> d])] : d \in Dates }
    \cup { [integration |-> ("end-date" :> [str |-> IsoFormat(d)])] : d \in Dates }

(***************************************************************************)
(* The documents the specifications draw from.                             *)
(***************************************************************************)
Lons == {-2, 1}
Lats == {0, 3}
Points == Lons \X Lats

Polygon(rings) == [type |-> "Polygon", coordinates |-> [rings |-> rings]]
MultiPolygon(polygons) ==
    [type |-> "MultiPolygon", coordinates |-> [polygons |-> polygons]]
Point(position) == [type |-> "Point", coordinates |-> [position |-> position]]

Feature(name, geometry) ==
    [properties |-> [name |-> name], geometry |-> geometry]

Documents(features) ==
    {[features |-> fs] : fs \in SeqsUpTo(features, MaxRegions)}

\* A few regions of every kind.
RingA == << <<-2, 0>>, <<1, 3>> >>
RingB == << <<1, 3>>, <<1, 0>>, <<-2, 3>> >>
RingC == << <<1, 0>> >>

SomeFeatures ==
    { Feature(<<"A", " ", "a">>, Polygon(<<RingA>>)),
      Feature(<<"A", " ", "a">>, Polygon(<<RingB, RingC>>)),
      Feature(<<"a">>, MultiPolygon(<< <<RingA>>, <<RingB>>, <<RingC>> >>)),
      Feature(<<"a">>, MultiPolygon(<< <<RingC, RingB>>, <<RingA>> >>)),
      Feature(<<"A">>, Polygon(<< <<>> >>)),
      Feature(<<"A">>, MultiPolygon(<< << <<>>, RingA >> >>)),
      Feature(<<"A">>, Polygon(<<>>)),
      Feature(<<"A">>, MultiPolygon(<<>>)),
      Feature(<<"A">>, MultiPolygon(<< <<RingA>>, <<>> >>)),
      Feature(<<"A", "-">>, Point(<<1, 0>>)) }

\* One region of one ring, the ring any list of up to MaxRingLen points.
RingDocuments ==
    LET rings == SeqsUpTo(Points, MaxRingLen)
    IN  {[features |-> <<Feature(<<"A">>, Polygon(<<r>>))>>] : r \in rings}
        \cup {[features |-> <<Feature(<<"A">>, MultiPolygon(<< <<r>> >>))>>] :
                   r \in rings}

\* One MultiPolygon region of up to MaxPolys polygons. The outer rings have
\* one, two or three points and pairwise different bounding boxes; one polygon
\* has a hole of more points than its outer ring.
SomePolygons ==
    { << << <<-2, 0>> >> >>,
      << << <<1, 3>> >> >>,
      << << <<-2, 0>>, <<-2, 3>> >> >>,
      << << <<1, 0>>, <<1, 3>> >> >>,
      << RingB >>,
      << << <<1, 0>> >>, RingB >> }

MultiDocuments ==
    {[features |-> <<Feature(<<"A">>, MultiPolygon(ps))>>] :
        ps \in SeqsUpTo(SomePolygons, MaxPolys)}

\* Two regions that differ at most in the rings after the first ring of their
\* polygons.
HoleLists == { <<>>, <<RingB>>, << <<>>, RingA >> }
HoledPolygons(outers) == {<<o>> \o hs : o \in outers, hs \in HoleLists}
HoledGeometries ==
    {Polygon(p) : p \in HoledPolygons({RingA, RingC, <<>>})}
    \cup {MultiPolygon(<<p, q>>) : p, q \in HoledPolygons({RingA, RingC})}

OuterRings(geometry) ==
    IF geometry.type = "Polygon"
    THEN <<geometry.coordinates.rings[1]>>
    ELSE [k \in 1..Len(geometry.coordinates.polygons) |->
             geometry.coordinates.polygons[k][1]]

SameOuterRings(g) ==
    {h \in HoledGeometries : h.type = g.type /\ OuterRings(h) = OuterRings(g)}

HoleDocuments ==
    UNION {{[features |-> <<Feature(<<"A">>, g), Feature(<<"A">>, h)>>] :
               h \in SameOuterRings(g)} : g \in HoledGeometries}

\* Regions of any name of up to MaxNameLen characters: alone, twice with
\* different geometries, or with a geometry that is no polygon.
Chars == {"A", "a", " ", "-", "U+0130"}
Names == SeqsUpTo(Chars, MaxNameLen)
NameDocuments ==
    {[features |-> <<Feature(n, Polygon(<<RingA>>))>>] : n \in Names}
    \cup {[features |-> <<Feature(n, Polygon(<<RingA>>)),
                          Feature(n, MultiPolygon(<< <<RingB>> >>))>>] : n \in Names}
    \cup {[features |-> <<Feature(n, Point(<<1, 0>>))>>] : n \in Names}

GeoInit(documents) ==
    /\ data \in documents
    /\ max_vertices \in MaxVerticesValues
    /\ pc = "download"
    /\ i = 0
    /\ file = NoFile
    /\ ret = -1
    /\ err = "none"
    /\ loaded = FALSE
    /\ prev = NoRun
    /\ config_data = [other |-> "data"]
    /\ pads_year = TRUE
    /\ date_pc = "idle"
    /\ end_date = <<>>
    /\ raised = "none"

Init == GeoInit(Documents(SomeFeatures))

Spec == Init /\ [][Next]_vars

SpecRing == GeoInit(RingDocuments) /\ [][Next]_vars

SpecMulti == GeoInit(MultiDocuments) /\ [][Next]_vars

SpecHoles == GeoInit(HoleDocuments) /\ [][Next]_vars

SpecNames == GeoInit(NameDocuments) /\ [][Next]_vars

DateInit ==
    /\ config_data \in Configs
    /\ pads_year \in BOOLEAN
    /\ date_pc = "call"
    /\ end_date = <<>>
    /\ raised = "none"
    /\ data = [features |-> <<>>]
    /\ max_vertices = 50
    /\ pc = "idle"
    /\ i = 0
    /\ file = NoFile
    /\ ret = -1
    /\ err = "none"
    /\ loaded = FALSE
    /\ prev = NoRun

SpecDate == DateInit /\ [][DateNext]_vars

(***************************************************************************)
(* The claims.                                                             *)
(***************************************************************************)
Features == data.features

Ended == pc \in {"returned", "raised"}

\* The file was opened by the run the state is in.
Opened == pc \in {"loop", "returned", "raised"} /\ loaded

Supported(feature) == feature.geometry.type \in {"Polygon", "MultiPolygon"}

\* A supported geometry every polygon of which has an outer ring and whose
\* measured ring has a point.
WellFormed(feature) ==
    LET c == feature.geometry.coordinates
    IN  CASE feature.geometry.type = "Polygon" ->
                c.rings # <<>> /\ c.rings[1] # <<>>
          [] feature.geometry.type = "MultiPolygon" ->
                /\ c.polygons # <<>>
                /\ \A p \in Range(c.polygons) : p # <<>>
                /\ \E p \in Range(c.polygons) : p[1] # <<>>
          [] OTHER -> FALSE

\* A supported geometry whose measured ring exists and has no point.
EmptySelected(feature) ==
    LET c == feature.geometry.coordinates
    IN  CASE feature.geometry.type = "Polygon" ->
                c.rings # <<>> /\ c.rings[1] = <<>>
          [] feature.geometry.type = "MultiPolygon" ->
                /\ c.polygons # <<>>
                /\ \A p \in Range(c.polygons) : p # <<>> /\ p[1] = <<>>
          [] OTHER -> FALSE

LatsOf(ring) == {ring[k][2] : k \in 1..Len(ring)}
LonsOf(ring) == {ring[k][1] : k \in 1..Len(ring)}

\* The row's bounds are the least and greatest coordinates of the ring.
BoxOf(row, ring) ==
    /\ row.Latmin \in LatsOf(ring) /\ \A y \in LatsOf(ring) : row.Latmin <= y
    /\ row.Latmax \in LatsOf(ring) /\ \A y \in LatsOf(ring) : y <= row.Latmax
    /\ row.Lonmin \in LonsOf(ring) /\ \A x \in LonsOf(ring) : row.Lonmin <= x
    /\ row.Lonmax \in LonsOf(ring) /\ \A x \in LonsOf(ring) : x <= row.Lonmax

\* C1 (as claimed): a region whose geometry tag is neither Polygon nor
\* MultiPolygon produces no row and does not stop the run: when every other
\* region is well formed, the run returns 0 and the table holds the rows of
\* the well-formed regions, in order.
C1_UnsupportedRegionIsSkipped ==
    (Ended /\ loaded /\ \A k \in 1..Len(Features) :
                            ~Supported(Features[k]) \/ WellFormed(Features[k]))
    => LET kept == SelectSeq(Features, WellFormed)
       IN  /\ pc = "returned" /\ ret = 0
           /\ Len(Rows(file)) = Len(kept)
           /\ \A k \in 1..Len(kept) :
                  Rows(file)[k].Description = kept[k].properties.name

\* The ring a well-formed region is measured by, read off the region alone.
MeasuredRing(feature) ==
    LET c == feature.geometry.coordinates
    IN  IF feature.geometry.type = "Polygon" THEN c.rings[1]
        ELSE LET m == CHOOSE m \in 1..Len(c.polygons) :
                          /\ \A j \in 1..Len(c.polygons) :
                                 Len(c.polygons[j][1]) <= Len(c.polygons[m][1])
                          /\ \A j \in 1..(m - 1) :
                                 Len(c.polygons[j][1]) < Len(c.polygons[m][1])
             IN  c.polygons[m][1]

\* C5: for a document of well-formed regions no iteration raises, the table
\* holds one row per region processed so far (all of them once the run has
\* returned), row k is region k's: it has region k's name and the bounds of
\* region k's own ring, and equal regions have equal rows wherever they stand.
C5_OneRowPerRegionInOrder ==
    (Opened /\ \A k \in 1..Len(Features) : WellFormed(Features[k]))
    => /\ pc # "raised"
       /\ pc = "returned" => ret = 0 /\ Len(Rows(file)) = Len(Features)
       /\ pc = "loop" => Len(Rows(file)) = i - 1
       /\ \A k \in 1..Len(Rows(file)) :
              /\ Rows(file)[k].Description = Features[k].properties.name
              /\ BoxOf(Rows(file)[k], MeasuredRing(Features[k]))
       /\ \A j, k \in 1..Len(Rows(file)) :
              Features[j] = Features[k] => Rows(file)[j] = Rows(file)[k]

C5_Witness ==
    /\ pc = "returned" /\ ret = 0
    /\ Len(Features) = 2 /\ Len(Rows(file)) = 2
    /\ Features[1].properties.name # Features[2].properties.name
    /\ Features[1].geometry.type # Features[2].geometry.type

\* C6: a region whose measured ring has no point never has a row in the
\* table, the run does not return 0, and the iteration that reaches the
\* region ends in the error of min() of an empty list.
C6_EmptyRingWritesNoRow ==
    \A k \in 1..Len(Features) :
        EmptySelected(Features[k])
        => /\ Len(Rows(file)) < k
           /\ ret # 0
           /\ pc = "loop" => i <= k
           /\ (pc = "raised" /\ i = k) => err = "ValueError"

C6_Witness ==
    /\ pc = "raised" /\ err = "ValueError"
    /\ i = 2 /\ EmptySelected(Features[2])
    /\ Len(Rows(file)) = 1

\* C9: a run whose retrieval failed has returned 1 and has left the output
\* file as it found it (absent, or with what the run before wrote), without
\* entering the loop; 1 is returned in no other case; and 0 is returned only
\* with the header and one row per region in the file.
C9_FailedDownloadLeavesFile ==
    /\ (pc = "returned" /\ ~loaded) => ret = 1 /\ file = prev.file /\ i = 0
    /\ ret = 1 => pc = "returned" /\ ~loaded
    /\ ret = 0 => /\ loaded
                  /\ file.exists
                  /\ SubSeq(file.lines, 1, Len(HeaderLines)) = HeaderLines
                  /\ Len(Rows(file)) = Len(Features)
                  /\ i = Len(Features) + 1

C9_Witness ==
    /\ pc = "returned" /\ ret = 1
    /\ prev.ran /\ prev.ret = 0
    /\ file.exists /\ Len(Rows(file)) = 2

\* C10: two runs on the same document and output path that both retrieved
\* the document, with different max_vertices, end with the same file, the
\* same return code and the same exception.
C10_MaxVerticesHasNoEffect ==
    (Ended /\ loaded /\ prev.ran /\ prev.loaded
        /\ prev.max_vertices # max_vertices)
    => file = prev.file /\ ret = prev.ret /\ err = prev.err

C10_Witness ==
    /\ Ended /\ loaded /\ prev.ran /\ prev.loaded
    /\ prev.max_vertices = 1 /\ max_vertices = 50
    /\ ret = 0 /\ Len(Rows(file)) = 2
    /\ \E k \in 1..2 : Rows(file)[k].Latmin < Rows(file)[k].Latmax

\* The one ring of a region of RingDocuments.
OnlyRing(feature) ==
    IF feature.geometry.type = "Polygon"
    THEN feature.geometry.coordinates.rings[1]
    ELSE feature.geometry.coordinates.polygons[1][1]

\* C2: the row written for a region has for lat_min and lat_max the least and
\* greatest second coordinates of the ring's points and for lon_min and
\* lon_max the least and greatest first coordinates: every point is inside the
\* box and every bound is a coordinate of some point.
C2_RowBoundsAreRingExtremes ==
    \A k \in 1..Len(Rows(file)) : BoxOf(Rows(file)[k], OnlyRing(Features[k]))

C2_Witness ==
    /\ pc = "returned" /\ ret = 0 /\ Len(Rows(file)) = 1
    /\ LET ring == OnlyRing(Features[1])
           row  == Rows(file)[1]
       IN  /\ Len(ring) = 3 /\ ring[1] = ring[3]
           /\ row.Lonmax > ring[1][1] /\ row.Latmin < ring[1][2]
           /\ row.Lonmin = ring[1][1] /\ row.Latmax = ring[1][2]

\* C3: the row of a MultiPolygon region has the bounds of the outer ring of
\* the polygon whose outer ring has the most points, the first such polygon
\* when several have the most.
C3_LargestOuterRingFirstOnTie ==
    \A k \in 1..Len(Rows(file)) :
        Features[k].geometry.type = "MultiPolygon"
        => LET ps == Features[k].geometry.coordinates.polygons
           IN  \E m \in 1..Len(ps) :
                   /\ \A j \in 1..Len(ps) : Len(ps[j][1]) <= Len(ps[m][1])
                   /\ \A j \in 1..(m - 1) : Len(ps[j][1]) < Len(ps[m][1])
                   /\ BoxOf(Rows(file)[k], ps[m][1])

C3_Witness ==
    /\ pc = "returned" /\ ret = 0 /\ Len(Rows(file)) = 1
    /\ LET ps == Features[1].geometry.coordinates.polygons
       IN  /\ Len(ps) = 3
           /\ Len(ps[1][1]) < Len(ps[2][1])
           /\ Len(ps[2][1]) = Len(ps[3][1])
           /\ ps[2][1] # ps[3][1]
           /\ BoxOf(Rows(file)[1], ps[2][1])
           /\ ~BoxOf(Rows(file)[1], ps[3][1])

\* Two regions that differ at most in the rings after the first ring of their
\* polygons.
SameButInteriorRings(f, g) ==
    /\ f.properties.name = g.properties.name
    /\ f.geometry.type = g.geometry.type
    /\ OuterRings(f.geometry) = OuterRings(g.geometry)

\* C4: the row of a Polygon region has the bounds of its first ring, and the
\* rows of two regions that differ only in rings after the first ring of a
\* polygon are equal.
C4_InteriorRingsIgnored ==
    /\ \A k \in 1..Len(Rows(file)) :
           Features[k].geometry.type = "Polygon"
           => BoxOf(Rows(file)[k], Features[k].geometry.coordinates.rings[1])
    /\ \A j, k \in 1..Len(Rows(file)) :
           SameButInteriorRings(Features[j], Features[k])
           => Rows(file)[j] = Rows(file)[k]

C4_Witness ==
    /\ pc = "returned" /\ ret = 0 /\ Len(Rows(file)) = 2
    /\ Features[1] # Features[2]
    /\ SameButInteriorRings(Features[1], Features[2])
    /\ Features[1].geometry.type = "MultiPolygon"
    /\ Len(Features[1].geometry.coordinates.polygons[1]) = 3
    /\ Len(Features[2].geometry.coordinates.polygons[2]) = 2

AsciiChars == {"A", "a", " ", "-"}

\* The character the identifier has for an ASCII character of the name.
IdChar(c) == CASE c = "A" -> "a" [] c = " " -> "-" [] OTHER -> c

\* The identifier has the name's length and, at each place, the name's
\* character lower-cased if a letter, a hyphen if a space, itself otherwise.
SameLengthId(id, name) ==
    /\ Len(id) = Len(name)
    /\ \A q \in 1..Len(name) : name[q] \in AsciiChars => id[q] = IdChar(name[q])

\* C7 (as claimed): the first column is the name with every letter lower-cased
\* and every space replaced by a hyphen, of the name's length; the second
\* column is the name; equal names have equal identifiers.
C7_IdentifierHasNameLength ==
    /\ \A k \in 1..Len(Rows(file)) :
           /\ Rows(file)[k].Description = Features[k].properties.name
           /\ SameLengthId(Rows(file)[k].Name, Features[k].properties.name)
    /\ \A j, k \in 1..Len(Rows(file)) :
           Features[j].properties.name = Features[k].properties.name
           => Rows(file)[j].Name = Rows(file)[k].Name

\* C7 (amended): the same, the length and the characters being claimed for
\* names of ASCII characters only.
C7_AsciiIdentifierHasNameLength ==
    /\ \A k \in 1..Len(Rows(file)) :
           /\ Rows(file)[k].Description = Features[k].properties.name
           /\ Range(Features[k].properties.name) \subseteq AsciiChars
              => SameLengthId(Rows(file)[k].Name, Features[k].properties.name)
    /\ \A j, k \in 1..Len(Rows(file)) :
           Features[j].properties.name = Features[k].properties.name
           => Rows(file)[j].Name = Rows(file)[k].Name

C7_Witness ==
    /\ pc = "returned" /\ ret = 0 /\ Len(Rows(file)) = 2
    /\ Features[1].properties.name = <<"A", " ">>
    /\ Features[2].properties.name = <<"A", " ">>
    /\ Rows(file)[1].Name = <<"a", "-">>
    /\ Rows(file)[2].Name = <<"a", "-">>
    /\ Rows(file)[1].Description = <<"A", " ">>

\* The eight digits YYYYMMDD of a date.
YYYYMMDD(d) ==
    ZeroPad(Digits(d.year), 4) \o ZeroPad(Digits(d.month), 2)
        \o ZeroPad(Digits(d.day), 2)

\* C8 (as claimed): for a date, given as a date object or as its string
\* 'YYYY-MM-DD', the extraction returns the date's eight digits YYYYMMDD; a
\* configuration without 'integration' raises the KeyError naming
\* 'integration', one with 'integration' but without 'end-date' the KeyError
\* naming 'end-date', and neither returns a date.
C8_EndDateIsYYYYMMDD ==
    date_pc # "call"
    => IF "integration" \notin DOMAIN config_data
       THEN /\ date_pc = "raised" /\ end_date = <<>>
            /\ raised = "Missing 'integration' section in config file"
       ELSE IF "end-date" \notin DOMAIN config_data.integration
       THEN /\ date_pc = "raised" /\ end_date = <<>>
            /\ raised = "Missing 'end-date' key in 'integration' section of config file"
       ELSE /\ date_pc = "returned" /\ raised = "none"
            /\ \A d \in Dates :
                   config_data.integration["end-date"]
                       \in {[date |-> d], [str |-> IsoFormat(d)]}
                   => end_date = YYYYMMDD(d) /\ Len(end_date) = 8

====
